---------------------------- MODULE Spec2Model ----------------------------
(***************************************************************************)
(* Model of the expression evaluator: the shunting-yard converter          *)
(* infix_to_postfix and the stack evaluator evaluate, as written in        *)
(* src/unnamed/part_000, and the older variant in                          *)
(* src/expression_evaluator.cpp.                                           *)
(*                                                                         *)
(* A std::string is a sequence of one-character strings; a std::stack is a *)
(* sequence whose last element is the top.                                 *)
(*                                                                         *)
(* A double is a pair <<n, d>>:                                            *)
(*     d >= 1            the finite value n/d in lowest terms              *)
(*     <<0, 1>>, <<0, -1>>   +0.0 and -0.0                                 *)
(*     <<1, 0>>, <<-1, 0>>   +Inf and -Inf                                 *)
(*     <<0, 0>>          NaN                                               *)
(*     <<0, -2>>         Unrep: a double the model does not compute, either*)
(*                       an irrational power or a value whose numerator or *)
(*                       denominator exceeds MaxMag.  Rounding of finite   *)
(*                       values is not modelled: within MaxMag arithmetic  *)
(*                       is exact.                                         *)
(***************************************************************************)
EXTENDS Integers, Sequences, FiniteSets, TLC

\* ------------------------------------------------------------------ bounds

\* Largest numerator or denominator the model computes exactly.
MaxMag == 10000

\* ------------------------------------------------------- characters, strings

Digits == {"0", "1", "2", "3", "4", "5", "6", "7", "8", "9"}

OpChars == {"+", "-", "*", "/", "^"}

\* isdigit(c)
isdigit(c) == c \in Digits

DigitVal(c) ==
    CASE c = "0" -> 0 [] c = "1" -> 1 [] c = "2" -> 2 [] c = "3" -> 3 [] c = "4" -> 4
      [] c = "5" -> 5 [] c = "6" -> 6 [] c = "7" -> 7 [] c = "8" -> 8 [] c = "9" -> 9

Last(s) == s[Len(s)]

Front(s) == SubSeq(s, 1, Len(s) - 1)

\* ------------------------------------------------------------------ doubles

NaN == <<0, 0>>

PInf == <<1, 0>>

NInf == <<-1, 0>>

PZero == <<0, 1>>

NZero == <<0, -1>>

Unrep == <<0, -2>>

One == <<1, 1>>

IsUnrep(v) == v = Unrep

IsNaN(v) == v = NaN

IsInf(v) == v = PInf \/ v = NInf

\* v == 0.0 in C++ (true of both zeros)
IsZero(v) == v = PZero \/ v = NZero

IsFinite(v) == v[2] >= 1 \/ IsZero(v)

\* the sign bit: -1 when set
Sgn(v) == IF v[1] < 0 \/ v = NZero THEN -1 ELSE 1

Abs(n) == IF n < 0 THEN -n ELSE n

RECURSIVE Gcd(_, _)
Gcd(a, b) == IF b = 0 THEN a ELSE Gcd(b, a % b)

Zero(s) == IF s < 0 THEN NZero ELSE PZero

Inf(s) == IF s < 0 THEN NInf ELSE PInf

\* the finite double n/d (d > 0), a zero of sign s when n = 0
Mk(n, d, s) ==
    IF n = 0 THEN Zero(s)
    ELSE LET g == Gcd(Abs(n), d)
         IN  IF Abs(n) \div g > MaxMag \/ d \div g > MaxMag
             THEN Unrep
             ELSE <<n \div g, d \div g>>

Den(v) == IF IsZero(v) THEN 1 ELSE v[2]

\* -v
Neg(v) ==
    CASE IsUnrep(v) -> Unrep
      [] IsNaN(v)   -> NaN
      [] IsZero(v)  -> Zero(-Sgn(v))
      [] OTHER      -> <<-v[1], v[2]>>

\* num2 + num1
Add(a, b) ==
    CASE IsUnrep(a) \/ IsUnrep(b) -> Unrep
      [] IsNaN(a) \/ IsNaN(b)     -> NaN
      [] IsInf(a) /\ IsInf(b)     -> IF a = b THEN a ELSE NaN
      [] IsInf(a)                 -> a
      [] IsInf(b)                 -> b
      [] OTHER ->
           Mk(a[1] * Den(b) + b[1] * Den(a), Den(a) * Den(b),
              IF a = NZero /\ b = NZero THEN -1 ELSE 1)

\* num2 - num1
Sub(a, b) == Add(a, Neg(b))

\* num2 * num1
Mul(a, b) ==
    CASE IsUnrep(a) \/ IsUnrep(b) -> Unrep
      [] IsNaN(a) \/ IsNaN(b)     -> NaN
      [] IsInf(a) \/ IsInf(b)     ->
           IF IsZero(a) \/ IsZero(b) THEN NaN ELSE Inf(Sgn(a) * Sgn(b))
      [] OTHER -> Mk(a[1] * b[1], Den(a) * Den(b), Sgn(a) * Sgn(b))

\* num2 / num1 as the hardware computes it (no guard)
Quot(a, b) ==
    CASE IsUnrep(a) \/ IsUnrep(b) -> Unrep
      [] IsNaN(a) \/ IsNaN(b)     -> NaN
      [] IsInf(a) /\ IsInf(b)     -> NaN
      [] IsZero(a) /\ IsZero(b)   -> NaN
      [] IsInf(a) \/ IsZero(b)    -> Inf(Sgn(a) * Sgn(b))
      [] IsInf(b)                 -> Zero(Sgn(a) * Sgn(b))
      [] OTHER -> Mk(Sgn(b) * a[1] * Den(b), Den(a) * Abs(b[1]), Sgn(a) * Sgn(b))

IsInteger(v) == IsFinite(v) /\ Den(v) = 1

IsOddInteger(v) == IsInteger(v) /\ v[1] % 2 = 1

\* acc * b^k for finite b and an integer k >= 0, by repeated multiplication;
\* stops as soon as the product leaves the exact range
RECURSIVE PowNat(_, _, _)
PowNat(acc, b, k) ==
    IF k = 0 \/ IsUnrep(acc) THEN acc ELSE PowNat(Mul(acc, b), b, k - 1)

\* |b| compared with 1: -1, 0 or 1 (b finite or infinite)
MagVsOne(b) ==
    IF IsInf(b) THEN 1
    ELSE IF Abs(b[1]) < Den(b) THEN -1 ELSE IF Abs(b[1]) = Den(b) THEN 0 ELSE 1

\* std::pow(num2, num1)
Pow(b, e) ==
    CASE IsZero(e)              -> One
      [] b = One                -> One
      [] IsUnrep(b) \/ IsUnrep(e) -> Unrep
      [] IsNaN(b) \/ IsNaN(e)   -> NaN
      [] IsInf(e) ->
           IF MagVsOne(b) = 0 THEN One
           ELSE IF (MagVsOne(b) < 0) = (e = NInf) THEN PInf ELSE PZero
      [] IsZero(b) \/ IsInf(b) ->
           LET s == IF Sgn(b) < 0 /\ IsOddInteger(e) THEN -1 ELSE 1
           IN  IF IsZero(b) = (e[1] > 0) THEN Zero(s) ELSE Inf(s)
      [] IsInteger(e) /\ MagVsOne(b) = 0 ->
           IF e[1] % 2 = 0 THEN One ELSE b
      [] IsInteger(e) ->
           IF e[1] > 0 THEN PowNat(One, b, e[1])
           ELSE Quot(One, PowNat(One, b, -e[1]))
      [] OTHER -> IF b[1] < 0 THEN NaN ELSE Unrep



\* ------------------------------------------------------------ error kinds

EmptyExpression == "Empty expression"

MismatchedParentheses == "Mismatched parentheses"

InvalidNumber == "Invalid number"

InsufficientOperands == "Invalid expression: not enough operands"

NotEnoughOperands == "Not enough operands to perform operation"

DivisionByZero == "Division by zero"

InvalidOperator == "Invalid operator"

MalformedExpression == "Invalid expression: too many operands"

NoError == ""

\* --------------------------------------------------- operator_properties

priority(op) ==
    CASE op = <<"+">> -> 1 [] op = <<"-">> -> 1
      [] op = <<"*">> -> 2 [] op = <<"/">> -> 2
      [] op = <<"^">> -> 3

left_associative(op) == op # <<"^">>

IsParen(s) == s = <<"(">> \/ s = <<")">>

\* has_lower_precedence without the tie-break on equal priorities
has_lower_precedence_NoTie(op1_str, op2_str) ==
    IF IsParen(op1_str) \/ IsParen(op2_str) THEN FALSE
    ELSE priority(op1_str) < priority(op2_str)

has_lower_precedence(op1_str, op2_str) ==
    IF IsParen(op1_str) \/ IsParen(op2_str) THEN FALSE
    ELSE IF priority(op1_str) = priority(op2_str) THEN left_associative(op1_str)
    ELSE priority(op1_str) < priority(op2_str)

\* ------------------------------------------------------ infix_to_postfix

\* the locals of infix_to_postfix before the loop
ScanInit ==
    [current_num |-> <<>>, previous_num |-> FALSE, Operators |-> <<>>,
     output |-> <<>>, err |-> NoError]

\* while (!Operators.empty() && Operators.top() != "(") { output.push(top); pop; }
RECURSIVE PopToLParen(_, _)
PopToLParen(ops, out) ==
    IF ops # <<>> /\ Last(ops) # <<"(">>
    THEN PopToLParen(Front(ops), Append(out, Last(ops)))
    ELSE [ops |-> ops, out |-> out]

\* while (!Operators.empty() && Operators.top() != "(" &&
\*        has_lower_precedence(op, Operators.top())) { output.push(top); pop; }
RECURSIVE PopLower(_, _, _)
PopLower(op, ops, out) ==
    IF ops # <<>> /\ Last(ops) # <<"(">> /\ has_lower_precedence(op, Last(ops))
    THEN PopLower(op, Front(ops), Append(out, Last(ops)))
    ELSE [ops |-> ops, out |-> out]

IsNumberChar(c) == isdigit(c) \/ c = "." \/ c = ","

\* the characters that reach the last branch of the loop (current_char != ' ')
IsOperatorBranchChar(c) == ~IsNumberChar(c) /\ c # "(" /\ c # ")" /\ c # " "

\* The value of !isdigit(expression[i-1]) in the unary test. i is a std::size_t, so
\* `i - 1 < 0` is always false; at i = 0 the index wraps and expression[i-1] reads
\* outside the string, whose outcome is the parameter oob (what isdigit returned).
\* idx is the 1-based position: idx = i + 1.
PrecededByDigit(expression, idx, oob) ==
    IF idx = 1 THEN oob ELSE isdigit(expression[idx - 1])

\* the branch for a digit, '.' or ','
ScanNumberChar(st, c) ==
    [st EXCEPT !.current_num = Append(@, IF c = "," THEN "." ELSE c),
               !.previous_num = TRUE]

\* the branch for '('
ScanLParen(st) == [st EXCEPT !.Operators = Append(@, <<"(">>)]

\* the branch for ')' without the throw on an empty operator stack
ScanRParen_NoThrow(st) ==
    LET out1 == IF st.current_num # <<>>
                THEN Append(st.output, st.current_num) ELSE st.output
        p == PopToLParen(st.Operators, out1)
    IN  [st EXCEPT !.current_num = <<>>, !.output = p.out,
                   !.Operators = IF p.ops # <<>> THEN Front(p.ops) ELSE p.ops]

\* the branch for ')'
ScanRParen(st) ==
    LET out1 == IF st.current_num # <<>>
                THEN Append(st.output, st.current_num) ELSE st.output
        p == PopToLParen(st.Operators, out1)
    IN  IF p.ops # <<>>
        THEN [st EXCEPT !.current_num = <<>>, !.output = p.out,
                        !.Operators = Front(p.ops)]
        ELSE [st EXCEPT !.current_num = <<>>, !.output = p.out,
                        !.Operators = p.ops, !.err = MismatchedParentheses]

\* the branch for any other character but ' ': digitBefore is the value of
\* isdigit(expression[i-1])
ScanOperator(st, c, digitBefore) ==
    IF ~digitBefore
    THEN [st EXCEPT !.current_num = Append(@, c)]
    ELSE LET out1 == IF st.previous_num
                     THEN Append(st.output, st.current_num) ELSE st.output
             num1 == IF st.previous_num THEN <<>> ELSE st.current_num
             p == PopLower(<<c>>, st.Operators, out1)
         IN  [st EXCEPT !.current_num = num1, !.previous_num = FALSE,
                        !.output = p.out, !.Operators = Append(p.ops, <<c>>)]

\* one iteration of the for loop, on the character at 1-based position idx
ScanChar(st, expression, idx, oob) ==
    LET c == expression[idx] IN
    CASE IsNumberChar(c) -> ScanNumberChar(st, c)
      [] c = "("         -> ScanLParen(st)
      [] c = ")"         -> ScanRParen(st)
      [] c = " "         -> st
      [] OTHER           -> ScanOperator(st, c, PrecededByDigit(expression, idx, oob))

\* reverse_stack(output): the first token pushed becomes the top
reverse_stack(s) == [k \in 1..Len(s) |-> s[Len(s) + 1 - k]]

\* while (!Operators.empty()) { output.push(Operators.top()); Operators.pop(); }
RECURSIVE PopAll(_, _)
PopAll(ops, out) ==
    IF ops # <<>> THEN PopAll(Front(ops), Append(out, Last(ops))) ELSE out

\* the code after the loop: the postfix stack infix_to_postfix returns
ScanFinish(st) ==
    LET out1 == IF st.current_num # <<>>
                THEN Append(st.output, st.current_num) ELSE st.output
    IN  reverse_stack(PopAll(st.Operators, out1))

\* ---------------------------------------------------------------- evaluate

\* s.find_first_of("0123456789.") != npos
is_number(s) == \E k \in 1..Len(s) : isdigit(s[k]) \/ s[k] = "."

\* the number of consecutive digits of s from position k on
RECURSIVE DigitRun(_, _)
DigitRun(s, k) == IF k <= Len(s) /\ isdigit(s[k]) THEN 1 + DigitRun(s, k + 1) ELSE 0

\* the decimal value of the n digits of s from position k on, after acc
RECURSIVE DigitsValue(_, _, _, _)
DigitsValue(s, k, n, acc) ==
    IF n = 0 THEN acc ELSE DigitsValue(s, k + 1, n - 1, 10 * acc + DigitVal(s[k]))

RECURSIVE TenTo(_)
TenTo(n) == IF n = 0 THEN 1 ELSE 10 * TenTo(n - 1)

\* std::stod(token): the longest prefix of the form [+-] digits [. digits] with at
\* least one digit; ok = FALSE is std::invalid_argument. The other forms strtod
\* reads (exponents, hex, inf, nan) need characters the inputs never hold, and no
\* literal of the modelled lengths is out of a double's range.
stod(token) ==
    LET signed == token # <<>> /\ token[1] \in {"+", "-"}
        sign == IF signed /\ token[1] = "-" THEN -1 ELSE 1
        start == IF signed THEN 2 ELSE 1
        ni == DigitRun(token, start)
        dot == start + ni
        nf == IF dot <= Len(token) /\ token[dot] = "." THEN DigitRun(token, dot + 1) ELSE 0
        whole == DigitsValue(token, start, ni, 0)
        all == DigitsValue(token, dot + 1, nf, whole)
    IN  [ok |-> ni + nf >= 1,
         val |-> IF ni + nf >= 1 THEN Mk(sign * all, TenTo(nf), sign) ELSE NaN]

\* operator_to_enum succeeds on exactly these tokens
IsOperatorToken(token) == Len(token) = 1 /\ token[1] \in OpChars

\* apply_operator with num1 and num2 exchanged
apply_operator_Swapped(result, op) ==
    IF Len(result) < 2 THEN [result |-> result, err |-> NotEnoughOperands]
    ELSE LET num2 == result[Len(result)]
             num1 == result[Len(result) - 1]
             rest == SubSeq(result, 1, Len(result) - 2)
         IN  CASE op = <<"+">> -> [result |-> Append(rest, Add(num2, num1)), err |-> NoError]
               [] op = <<"-">> -> [result |-> Append(rest, Sub(num2, num1)), err |-> NoError]
               [] op = <<"*">> -> [result |-> Append(rest, Mul(num2, num1)), err |-> NoError]
               [] op = <<"/">> ->
                    IF IsZero(num1) THEN [result |-> rest, err |-> DivisionByZero]
                    ELSE [result |-> Append(rest, Quot(num2, num1)), err |-> NoError]
               [] op = <<"^">> -> [result |-> Append(rest, Pow(num2, num1)), err |-> NoError]

\* apply_operator(result, op): the stack afterwards and the error thrown, if any
apply_operator(result, op) ==
    IF Len(result) < 2 THEN [result |-> result, err |-> NotEnoughOperands]
    ELSE LET num1 == result[Len(result)]
             num2 == result[Len(result) - 1]
             rest == SubSeq(result, 1, Len(result) - 2)
         IN  CASE op = <<"+">> -> [result |-> Append(rest, Add(num2, num1)), err |-> NoError]
               [] op = <<"-">> -> [result |-> Append(rest, Sub(num2, num1)), err |-> NoError]
               [] op = <<"*">> -> [result |-> Append(rest, Mul(num2, num1)), err |-> NoError]
               [] op = <<"/">> ->
                    IF IsZero(num1) THEN [result |-> rest, err |-> DivisionByZero]
                    ELSE [result |-> Append(rest, Quot(num2, num1)), err |-> NoError]
               [] op = <<"^">> -> [result |-> Append(rest, Pow(num2, num1)), err |-> NoError]

\* one iteration of evaluate's while loop on the top token of postfix_expr
EvalToken(est) ==
    LET token == Last(est.postfix_expr) IN
    IF is_number(token)
    THEN LET r == stod(token)
         IN  IF r.ok
             THEN [est EXCEPT !.result = Append(@, r.val), !.postfix_expr = Front(@)]
             ELSE [est EXCEPT !.err = InvalidNumber]
    ELSE IF Len(est.result) < 2 THEN [est EXCEPT !.err = InsufficientOperands]
    ELSE IF ~IsOperatorToken(token) THEN [est EXCEPT !.err = InvalidOperator]
    ELSE LET a == apply_operator(est.result, token)
         IN  IF a.err # NoError
             THEN [est EXCEPT !.result = a.result, !.err = a.err]
             ELSE [est EXCEPT !.result = a.result, !.postfix_expr = Front(@)]

\* the end of evaluate testing result.empty() instead of result.size() != 1
EvalReturn_EmptyTest(result) ==
    IF Len(result) = 0 THEN [err |-> MalformedExpression, val |-> NaN]
    ELSE [err |-> NoError, val |-> Last(result)]

\* the end of evaluate: the value returned or the error thrown
EvalReturn(result) ==
    IF Len(result) # 1 THEN [err |-> MalformedExpression, val |-> NaN]
    ELSE [err |-> NoError, val |-> Last(result)]

\* ------------------------------------------- the functions as a whole

RECURSIVE ScanFrom(_, _, _, _)
ScanFrom(st, expression, idx, oob) ==
    IF idx > Len(expression) \/ st.err # NoError THEN st
    ELSE ScanFrom(ScanChar(st, expression, idx, oob), expression, idx + 1, oob)

\* infix_to_postfix(expression): the error thrown, or the stack returned
infix_to_postfix(expression, oob) ==
    LET st == ScanFrom(ScanInit, expression, 1, oob)
    IN  [err |-> st.err,
         postfix |-> IF st.err = NoError THEN ScanFinish(st) ELSE <<>>]

RECURSIVE EvalFrom(_)
EvalFrom(est) ==
    IF est.postfix_expr = <<>> \/ est.err # NoError THEN est ELSE EvalFrom(EvalToken(est))

\* evaluate(expression): the error thrown, or the value returned
evaluate(expression, oob) ==
    IF expression = <<>> THEN [err |-> EmptyExpression, val |-> NaN]
    ELSE LET c == infix_to_postfix(expression, oob)
         IN  IF c.err # NoError THEN [err |-> c.err, val |-> NaN]
             ELSE LET est == EvalFrom([postfix_expr |-> c.postfix, result |-> <<>>,
                                       err |-> NoError])
                  IN  IF est.err # NoError THEN [err |-> est.err, val |-> NaN]
                      ELSE EvalReturn(est.result)

\* ------------------------------- the variant of src/expression_evaluator.cpp

\* exceptions that are not std::runtime_error
StdOutOfRange == "std::out_of_range"

StdInvalidArgument == "std::invalid_argument"

\* operator_properties.at(op) finds op
InOperatorProperties(op) == Len(op) = 1 /\ op[1] \in OpChars

\* has_lower_precedence without the parenthesis test (both arguments in the map)
legacy_has_lower_precedence(op1_str, op2_str) ==
    IF priority(op1_str) = priority(op2_str) THEN left_associative(op1_str)
    ELSE priority(op1_str) < priority(op2_str)

\* while (!Operators.empty() && has_lower_precedence(op, Operators.top())) {...};
\* operator_properties.at throws on a string that is no operator
RECURSIVE LegacyPopLower(_, _, _)
LegacyPopLower(op, ops, out) ==
    IF ops = <<>> THEN [ops |-> ops, out |-> out, err |-> NoError]
    ELSE IF ~InOperatorProperties(op) \/ ~InOperatorProperties(Last(ops))
    THEN [ops |-> ops, out |-> out, err |-> StdOutOfRange]
    ELSE IF legacy_has_lower_precedence(op, Last(ops))
    THEN LegacyPopLower(op, Front(ops), Append(out, Last(ops)))
    ELSE [ops |-> ops, out |-> out, err |-> NoError]

\* one iteration of the for loop: the variant has no branches for parentheses
LegacyScanChar(st, expression, idx, oob) ==
    LET c == expression[idx] IN
    CASE IsNumberChar(c) -> ScanNumberChar(st, c)
      [] c = " "         -> st
      [] OTHER ->
           IF ~PrecededByDigit(expression, idx, oob)
           THEN [st EXCEPT !.current_num = Append(@, c)]
           ELSE LET out1 == IF st.previous_num
                            THEN Append(st.output, st.current_num) ELSE st.output
                    num1 == IF st.previous_num THEN <<>> ELSE st.current_num
                    p == LegacyPopLower(<<c>>, st.Operators, out1)
                IN  IF p.err # NoError
                    THEN [st EXCEPT !.current_num = num1, !.previous_num = FALSE,
                                    !.output = p.out, !.Operators = p.ops,
                                    !.err = p.err]
                    ELSE [st EXCEPT !.current_num = num1, !.previous_num = FALSE,
                                    !.output = p.out,
                                    !.Operators = Append(p.ops, <<c>>)]

\* apply_Operator(result, op): the division has no guard
apply_Operator(result, op) ==
    IF Len(result) < 2 THEN [result |-> result, err |-> NotEnoughOperands]
    ELSE LET num1 == result[Len(result)]
             num2 == result[Len(result) - 1]
             rest == SubSeq(result, 1, Len(result) - 2)
         IN  [result |-> Append(rest,
                  CASE op = <<"+">> -> Add(num2, num1)
                    [] op = <<"-">> -> Sub(num2, num1)
                    [] op = <<"*">> -> Mul(num2, num1)
                    [] op = <<"/">> -> Quot(num2, num1)
                    [] op = <<"^">> -> Pow(num2, num1)),
              err |-> NoError]

\* one iteration of the variant's while loop: std::stod is not in a try block
LegacyEvalToken(est) ==
    LET token == Last(est.postfix_expr) IN
    IF is_number(token)
    THEN LET r == stod(token)
         IN  IF r.ok
             THEN [est EXCEPT !.result = Append(@, r.val), !.postfix_expr = Front(@)]
             ELSE [est EXCEPT !.err = StdInvalidArgument]
    ELSE IF Len(est.result) < 2 THEN [est EXCEPT !.err = InsufficientOperands]
    ELSE IF ~IsOperatorToken(token) THEN [est EXCEPT !.err = InvalidOperator]
    ELSE LET a == apply_Operator(est.result, token)
         IN  IF a.err # NoError
             THEN [est EXCEPT !.result = a.result, !.err = a.err]
             ELSE [est EXCEPT !.result = a.result, !.postfix_expr = Front(@)]

RECURSIVE LegacyScanFrom(_, _, _, _)
LegacyScanFrom(st, expression, idx, oob) ==
    IF idx > Len(expression) \/ st.err # NoError THEN st
    ELSE LegacyScanFrom(LegacyScanChar(st, expression, idx, oob), expression,
                        idx + 1, oob)

RECURSIVE LegacyEvalFrom(_)
LegacyEvalFrom(est) ==
    IF est.postfix_expr = <<>> \/ est.err # NoError THEN est
    ELSE LegacyEvalFrom(LegacyEvalToken(est))

\* the variant's evaluate(expression): the error thrown, or the value returned
legacy_evaluate(expression, oob) ==
    LET st == LegacyScanFrom(ScanInit, expression, 1, oob)
        postfix == ScanFinish(st)
    IN  IF st.err # NoError THEN [err |-> st.err, val |-> NaN]
        ELSE IF postfix = <<>> THEN [err |-> EmptyExpression, val |-> NaN]
        ELSE LET est == LegacyEvalFrom([postfix_expr |-> postfix, result |-> <<>>,
                                        err |-> NoError])
             IN  IF est.err # NoError THEN [err |-> est.err, val |-> NaN]
                 ELSE EvalReturn(est.result)

\* ------------------------------------------------------- the state machine

VARIABLES
    expression,     \* the argument of evaluate
    pc,             \* "start", "scan" (the for loop), "eval" (the while loop),
                    \* "done" (returned), "failed" (threw)
    i,              \* 1-based position of the next character to scan
    current_num, previous_num, Operators, output,   \* locals of infix_to_postfix
    postfix_expr, result,                           \* locals of evaluate
    err,            \* the message of the exception thrown
    retval          \* the value returned

vars == <<expression, pc, i, current_num, previous_num, Operators, output,
          postfix_expr, result, err, retval>>

\* the locals of infix_to_postfix as one record
ScanState ==
    [current_num |-> current_num, previous_num |-> previous_num,
     Operators |-> Operators, output |-> output, err |-> err]

\* the state at the call of evaluate(e)
Call(e) ==
    /\ expression = e
    /\ pc = "start"
    /\ i = 1
    /\ current_num = <<>>
    /\ previous_num = FALSE
    /\ Operators = <<>>
    /\ output = <<>>
    /\ postfix_expr = <<>>
    /\ result = <<>>
    /\ err = NoError
    /\ retval = NaN

\* the outcomes of isdigit(expression[i-1]) at position idx: read from the string
\* except at the first character, where the read is out of bounds
OobOutcomes(idx) ==
    IF idx = 1 /\ IsOperatorBranchChar(expression[idx]) THEN BOOLEAN ELSE {FALSE}

\* evaluate's entry: the empty-string check, then the call of infix_to_postfix
Enter ==
    /\ pc = "start"
    /\ IF expression = <<>>
       THEN pc' = "failed" /\ err' = EmptyExpression
       ELSE pc' = "scan" /\ err' = NoError
    /\ UNCHANGED <<expression, i, current_num, previous_num, Operators, output,
                   postfix_expr, result, retval>>

\* one iteration of the for loop of infix_to_postfix
ScanStep ==
    /\ pc = "scan"
    /\ i <= Len(expression)
    /\ \E oob \in OobOutcomes(i) :
         LET st == ScanChar(ScanState, expression, i, oob) IN
         /\ current_num' = st.current_num
         /\ previous_num' = st.previous_num
         /\ Operators' = st.Operators
         /\ output' = st.output
         /\ err' = st.err
         /\ pc' = IF st.err # NoError THEN "failed" ELSE "scan"
         /\ i' = IF st.err # NoError THEN i ELSE i + 1
    /\ UNCHANGED <<expression, postfix_expr, result, retval>>

\* the end of infix_to_postfix: its result becomes evaluate's postfix_expr
ScanEnd ==
    /\ pc = "scan"
    /\ i > Len(expression)
    /\ postfix_expr' = ScanFinish(ScanState)
    /\ current_num' = <<>>
    /\ Operators' = <<>>
    /\ output' = <<>>
    /\ pc' = "eval"
    /\ UNCHANGED <<expression, i, previous_num, result, err, retval>>

\* one iteration of the while loop of evaluate
EvalStep ==
    /\ pc = "eval"
    /\ postfix_expr # <<>>
    /\ LET est == EvalToken([postfix_expr |-> postfix_expr, result |-> result,
                             err |-> NoError]) IN
       /\ postfix_expr' = est.postfix_expr
       /\ result' = est.result
       /\ err' = est.err
       /\ pc' = IF est.err # NoError THEN "failed" ELSE "eval"
    /\ UNCHANGED <<expression, i, current_num, previous_num, Operators, output, retval>>

\* the end of evaluate
Return ==
    /\ pc = "eval"
    /\ postfix_expr = <<>>
    /\ LET r == EvalReturn(result) IN
       /\ err' = r.err
       /\ retval' = r.val
       /\ pc' = IF r.err # NoError THEN "failed" ELSE "done"
    /\ UNCHANGED <<expression, i, current_num, previous_num, Operators, output,
                   postfix_expr, result>>

Next == Enter \/ ScanStep \/ ScanEnd \/ EvalStep \/ Return

\* ---------------------------------------------------------------- inputs

\* the strings over alphabet of length n
RECURSIVE StringsOfLen(_, _)
StringsOfLen(alphabet, n) ==
    IF n = 0 THEN {<<>>}
    ELSE {Append(s, c) : s \in StringsOfLen(alphabet, n - 1), c \in alphabet}

StringsUpTo(alphabet, n) == UNION {StringsOfLen(alphabet, k) : k \in 0..n}

\* longest input of Spec
MaxLen == 4

Alphabet == {"0", "1", "2", "+", "-", "/", "(", ")", " "}

Init == \E e \in StringsUpTo(Alphabet, MaxLen) : Call(e)

Spec == Init /\ [][Next]_vars

\* ------------------------------------ the variant as a state machine

\* the state at the call of the variant's evaluate(e), which begins with the
\* call of infix_to_postfix
LegacyCall(e) ==
    /\ expression = e
    /\ pc = "scan"
    /\ i = 1
    /\ current_num = <<>>
    /\ previous_num = FALSE
    /\ Operators = <<>>
    /\ output = <<>>
    /\ postfix_expr = <<>>
    /\ result = <<>>
    /\ err = NoError
    /\ retval = NaN

LegacyScanStep ==
    /\ pc = "scan"
    /\ i <= Len(expression)
    /\ \E oob \in OobOutcomes(i) :
         LET st == LegacyScanChar(ScanState, expression, i, oob) IN
         /\ current_num' = st.current_num
         /\ previous_num' = st.previous_num
         /\ Operators' = st.Operators
         /\ output' = st.output
         /\ err' = st.err
         /\ pc' = IF st.err # NoError THEN "failed" ELSE "scan"
         /\ i' = IF st.err # NoError THEN i ELSE i + 1
    /\ UNCHANGED <<expression, postfix_expr, result, retval>>

\* the end of infix_to_postfix and the variant's test for an empty result
LegacyScanEnd ==
    /\ pc = "scan"
    /\ i > Len(expression)
    /\ postfix_expr' = ScanFinish(ScanState)
    /\ current_num' = <<>>
    /\ Operators' = <<>>
    /\ output' = <<>>
    /\ IF postfix_expr' = <<>>
       THEN pc' = "failed" /\ err' = EmptyExpression
       ELSE pc' = "eval" /\ err' = NoError
    /\ UNCHANGED <<expression, i, previous_num, result, retval>>

LegacyEvalStep ==
    /\ pc = "eval"
    /\ postfix_expr # <<>>
    /\ LET est == LegacyEvalToken([postfix_expr |-> postfix_expr, result |-> result,
                                   err |-> NoError]) IN
       /\ postfix_expr' = est.postfix_expr
       /\ result' = est.result
       /\ err' = est.err
       /\ pc' = IF est.err # NoError THEN "failed" ELSE "eval"
    /\ UNCHANGED <<expression, i, current_num, previous_num, Operators, output, retval>>

LegacyReturn ==
    /\ pc = "eval"
    /\ postfix_expr = <<>>
    /\ LET r == EvalReturn(result) IN
       /\ err' = r.err
       /\ retval' = r.val
       /\ pc' = IF r.err # NoError THEN "failed" ELSE "done"
    /\ UNCHANGED <<expression, i, current_num, previous_num, Operators, output,
                   postfix_expr, result>>

NextLegacy == LegacyScanStep \/ LegacyScanEnd \/ LegacyEvalStep \/ LegacyReturn

\* longest input of SpecLegacy
MaxLenLegacy == 4

LegacyAlphabet == {"0", "1", "2", "-", "/", "^", "(", " "}

InitLegacy == \E e \in StringsUpTo(LegacyAlphabet, MaxLenLegacy) : LegacyCall(e)

SpecLegacy == InitLegacy /\ [][NextLegacy]_vars

\* ------------------------------------------------ inputs of the other specs

\* longest input of SpecParen
MaxLenParen == 6

ParenAlphabet == {"1", "+", "(", ")", " "}

InitParen == \E e \in StringsUpTo(ParenAlphabet, MaxLenParen) : Call(e)

SpecParen == InitParen /\ [][Next]_vars

\* longest input of SpecStack
MaxLenStack == 4

StackAlphabet == {"1", "+", "-", "*", "/", "^", "(", ")"}

InitStack == \E e \in StringsUpTo(StackAlphabet, MaxLenStack) : Call(e)

SpecStack == InitStack /\ [][Next]_vars

\* most operators in an input of SpecAlt
MaxOps == 2

Literals == {<<"0">>, <<"2">>, <<"3">>, <<"1", "0">>, <<"1", ",", "5">>}

\* literal (operator literal)^k
RECURSIVE AltExprs(_)
AltExprs(k) ==
    IF k = 0 THEN Literals
    ELSE {e \o <<op>> \o l : e \in AltExprs(k - 1), op \in OpChars, l \in Literals}

InitAlt == \E k \in 0..MaxOps : \E e \in AltExprs(k) : Call(e)

SpecAlt == InitAlt /\ [][Next]_vars

GroupDigits == {"0", "1", "2", "3", "4"}

GroupOps == {"+", "-", "*", "/"}

\* the inputs "(a op1 b) op2 c" written without spaces
InitGroup ==
    \E a \in GroupDigits, b \in GroupDigits, c \in GroupDigits :
        \E op1 \in GroupOps, op2 \in GroupOps :
            Call(<<"(", a, op1, b, ")", op2, c>>)

SpecGroup == InitGroup /\ [][Next]_vars

\* ---------------------------------------------------------------- claims

Terminal == pc \in {"done", "failed"}

HasLParen(stack) == \E k \in 1..Len(stack) : stack[k] = <<"(">>

\* the literals and operators of a parenthesis-free expression, in order:
\* literal, operator, literal, ...
RECURSIVE Items(_, _, _)
Items(e, k, cur) ==
    IF k > Len(e) THEN <<cur>>
    ELSE IF e[k] \in OpChars THEN <<cur, <<e[k]>>>> \o Items(e, k + 1, <<>>)
    ELSE Items(e, k + 1, Append(cur, e[k]))

\* the value of an unsigned literal, ',' read as the decimal point
LiteralValue(lit) == stod([k \in 1..Len(lit) |-> IF lit[k] = "," THEN "." ELSE lit[k]])

\* unsigned literals that end in a digit, separated by single operators
IsAlternation(e) ==
    /\ \A k \in 1..Len(e) : IsNumberChar(e[k]) \/ e[k] \in OpChars
    /\ LET it == Items(e, 1, <<>>)
       IN  \A k \in 1..Len(it) :
             k % 2 = 1 => it[k] # <<>> /\ isdigit(Last(it[k]))
                          /\ Cardinality({j \in 1..Len(it[k]) : ~isdigit(it[k][j])}) <= 1

SetMin(S) == CHOOSE x \in S : \A y \in S : x <= y

SetMax(S) == CHOOSE x \in S : \A y \in S : x >= y

BinOp(op, left, right) ==
    CASE op = <<"+">> -> Add(left, right)
      [] op = <<"-">> -> Sub(left, right)
      [] op = <<"*">> -> Mul(left, right)
      [] op = <<"/">> -> Quot(left, right)
      [] op = <<"^">> -> Pow(left, right)

\* The value of literal, operator, literal, ... grouped by the table: split at the
\* operator of lowest priority, the last one for priorities 1 and 2 (left to
\* right) and the first one for priority 3 (right to left). ok is FALSE when a
\* divisor is zero.
RECURSIVE GroupedValue(_)
GroupedValue(it) ==
    IF Len(it) = 1 THEN [ok |-> TRUE, val |-> LiteralValue(it[1]).val]
    ELSE LET opsAt == {k \in 1..Len(it) : k % 2 = 0}
             low == SetMin({priority(it[k]) : k \in opsAt})
             cand == {k \in opsAt : priority(it[k]) = low}
             at == IF low = 3 THEN SetMin(cand) ELSE SetMax(cand)
             l == GroupedValue(SubSeq(it, 1, at - 1))
             r == GroupedValue(SubSeq(it, at + 1, Len(it)))
         IN  IF ~l.ok \/ ~r.ok \/ (it[at] = <<"/">> /\ IsZero(r.val))
             THEN [ok |-> FALSE, val |-> NaN]
             ELSE [ok |-> TRUE, val |-> BinOp(it[at], l.val, r.val)]

\* C2: a parenthesis-free expression of unsigned literals (each ending in a digit)
\* separated by binary operators, with no zero divisor, evaluates to the value of
\* its grouping by the table: higher priority first, + - * / left to right,
\* ^ right to left, the earlier operand on the left.
C2_GroupsByTable ==
    (Terminal /\ IsAlternation(expression)) =>
        LET g == GroupedValue(Items(expression, 1, <<>>))
        IN  g.ok => (pc = "done" /\ retval = g.val)

C2_Witness ==
    /\ pc = "done"
    /\ expression = <<"1", "0", "-", "3", "-", "2">>
    /\ retval = <<5, 1>>

\* C8: when the scan reaches a ')' and the operator stack holds no '(',
\* infix_to_postfix throws "Mismatched parentheses" at that character; nothing
\* has been evaluated, no value is returned and nothing follows the throw.
C8_UnmatchedRParenThrows ==
    [][ /\ pc # "failed"
        /\ (pc = "scan" /\ i <= Len(expression) /\ expression[i] = ")"
              /\ ~HasLParen(Operators))
           => (pc' = "failed" /\ err' = MismatchedParentheses /\ i' = i
               /\ result' = <<>> /\ postfix_expr' = <<>> /\ retval' = NaN)
      ]_vars

C8_Witness ==
    /\ pc = "failed"
    /\ err = MismatchedParentheses
    /\ expression = <<"(", "1", "+", "1", ")", ")">>
    /\ i = 6

\* C9: evaluate returns only from the emptied postfix stack with exactly one value
\* on the operand stack, and returns that value; with zero or several values left
\* it throws "too many operands"; a token that is no number met with fewer than
\* two operands throws "not enough operands", and the operand stack shrinks only
\* when it holds at least two values.
C9_ReturnsTheSingleValue ==
    [][ /\ (pc' = "done") =>
              /\ pc = "eval" /\ postfix_expr = <<>>
              /\ Len(result) = 1 /\ retval' = result[1] /\ err' = NoError
        /\ (pc = "eval" /\ postfix_expr = <<>> /\ Len(result) # 1) =>
              (pc' = "failed" /\ err' = MalformedExpression)
        /\ (pc = "eval" /\ postfix_expr # <<>> /\ Len(result) < 2
              /\ ~is_number(Last(postfix_expr))) =>
              (pc' = "failed" /\ err' = InsufficientOperands /\ result' = result)
        /\ (Len(result') < Len(result)) => Len(result) >= 2
      ]_vars

C9_Witness ==
    /\ pc = "done"
    /\ expression = <<"(", "2", ")">>
    /\ retval = <<2, 1>>

\* C10: on the operator stack, two neighbouring operators (no '(' among the two)
\* are such that the upper one has strictly higher priority than the lower one,
\* or both are '^'; the stack never holds ')'.
C10_OperatorStackOrdered ==
    \A k \in 1..Len(Operators) :
        /\ Operators[k] # <<")">>
        /\ (k < Len(Operators) /\ Operators[k] # <<"(">> /\ Operators[k + 1] # <<"(">>)
           => \/ priority(Operators[k + 1]) > priority(Operators[k])
              \/ (Operators[k] = <<"^">> /\ Operators[k + 1] = <<"^">>)

C10_Witness ==
    /\ pc = "scan"
    /\ Operators = << <<"^">>, <<"^">> >>

Outcome == [err |-> err, val |-> retval]

IsGroupThenOp(e) ==
    /\ Len(e) = 7
    /\ e[1] = "(" /\ isdigit(e[2]) /\ e[3] \in GroupOps /\ isdigit(e[4]) /\ e[5] = ")"
    /\ e[6] \in GroupOps /\ isdigit(e[7])

\* C1: evaluate("(a op1 b) op2 c"), one-digit a, b, c and op1, op2 among + - * /
\* with no zero divisor, returns the value of (a op1 b) op2 c.
C1_GroupAsLeftOperand ==
    (Terminal /\ IsGroupThenOp(expression)) =>
        LET e == expression
            a == LiteralValue(<<e[2]>>).val
            b == LiteralValue(<<e[4]>>).val
            c == LiteralValue(<<e[7]>>).val
            inner == BinOp(<<e[3]>>, a, b)
            noZeroDivisor == /\ (e[3] = "/" => ~IsZero(b))
                             /\ (e[6] = "/" => ~IsZero(c))
        IN  noZeroDivisor => (pc = "done" /\ retval = BinOp(<<e[6]>>, inner, c))

\* the scan of e ends with a '(' on the operator stack
LeavesLParen(e) ==
    \E oob \in BOOLEAN :
        LET st == ScanFrom(ScanInit, e, 1, oob)
        IN  st.err = NoError /\ HasLParen(st.Operators)

\* C3: an expression whose scan ends with a '(' still unmatched makes evaluate
\* throw "Mismatched parentheses", and no '(' is ever part of the postfix sequence.
C3_UnmatchedLParenThrows ==
    /\ ~HasLParen(postfix_expr)
    /\ (Terminal /\ LeavesLParen(expression)) =>
           (pc = "failed" /\ err = MismatchedParentheses)

StripSpaces(e) == SelectSeq(e, LAMBDA c : c # " ")

IsOpOrParen(c) == c \in OpChars \/ c = "(" \/ c = ")"

\* every space of e stands in a run of spaces next to an operator or parenthesis
SpacesOnlyAroundOperators(e) ==
    \A k \in 1..Len(e) :
        e[k] = " " =>
            \/ \E j \in 1..(k - 1) :
                 IsOpOrParen(e[j]) /\ \A m \in (j + 1)..k : e[m] = " "
            \/ \E j \in (k + 1)..Len(e) :
                 IsOpOrParen(e[j]) /\ \A m \in k..(j - 1) : e[m] = " "

\* C4: an expression with spaces before or after its operators and parentheses
\* has the postfix sequence and the outcome of the expression without the spaces
\* (stated here for expressions that evaluate to a number without the spaces).
C4_WhitespaceIgnored ==
    LET e == StripSpaces(expression) IN
    (SpacesOnlyAroundOperators(expression) /\ \A oob \in BOOLEAN : evaluate(e, oob).err = NoError)
    => /\ (pc = "eval" /\ result = <<>>) =>
              \E oob \in BOOLEAN : postfix_expr = infix_to_postfix(e, oob).postfix
       /\ Terminal => \E oob \in BOOLEAN : Outcome = evaluate(e, oob)

\* C5: applying '/' with a right operand equal to 0 throws "Division by zero" and
\* pushes nothing on the operand stack.
C5_DivisionByZeroThrows ==
    [][ (pc = "eval" /\ postfix_expr # <<>> /\ Last(postfix_expr) = <<"/">>
           /\ Len(result) >= 2 /\ IsZero(Last(result)))
        => (pc' = "failed" /\ err' = DivisionByZero
            /\ result' = SubSeq(result, 1, Len(result) - 2))
      ]_vars

\* C6: a '+' or '-' at the start of the expression, directly after an operator or
\* directly after '(' goes in front of the literal being accumulated and leaves
\* the operator stack and the output as they are.
C6_SignIsUnary ==
    [][ (pc = "scan" /\ i <= Len(expression) /\ expression[i] \in {"+", "-"}
           /\ (i = 1 \/ expression[i - 1] \in OpChars \/ expression[i - 1] = "("))
        => (pc' = "scan" /\ current_num' = <<expression[i]>> \o current_num
            /\ Operators' = Operators /\ output' = output)
      ]_vars

\* infix_to_postfix(e) returns an empty sequence
YieldsZeroTokens(e) ==
    \A oob \in BOOLEAN :
        LET c == infix_to_postfix(e, oob) IN c.err = NoError /\ c.postfix = <<>>

\* C7: an input that yields zero tokens (the empty string, spaces only, "()")
\* makes evaluate throw "Empty expression".
C7_ZeroTokensIsEmptyExpression ==
    (Terminal /\ YieldsZeroTokens(expression)) =>
        (pc = "failed" /\ err = EmptyExpression)

=============================================================================
